---- MODULE Spec2Model ----
(***************************************************************************)
(* Model of public/scripts/moe-widget.js: the MoE cost model, the DeepEP   *)
(* kernel-profile selector, the sampled crossover scan, the two-batch      *)
(* timeline scheduler, and the page's render loop: event handlers, cached  *)
(* timings and the animation frame loop.                                   *)
(*                                                                         *)
(* JavaScript numbers are modelled as extended rationals <<n, d, e>>:      *)
(*   d > 0  : the finite value (n/d) * 2^e, n/d in lowest terms, n and d   *)
(*            odd (zero is <<0,1,0>>),                                     *)
(*   <<1,0,0>>: +Infinity,  <<-1,0,0>>: -Infinity,  <<0,0,0>>: NaN.        *)
(* Arithmetic is exact on finite values (no rounding) and follows IEEE-754 *)
(* on the special values.  Signed zero is not distinguished: no divisor in *)
(* the modelled code is a computed zero.                                   *)
(***************************************************************************)
EXTENDS Integers, Sequences, FiniteSets, TLC

\* params    : the arguments the model is evaluated with (ControlState.getModelParameters)
\* timings   : the Timings record in use (cachedTimings), Null before it is computed
\* optimal   : the result of DeepEPModel.pickOptimalMode, "none" before the call
\* crossover : crossoverTokens of DeepEPRenderer._drawCurveLines (null until found)
\* timeline  : what TimelineRenderer.draw built last: options, schedule, totalMs
\* pc        : the statement of the running handler that runs next
\*             ("done": none, the page waits for an event or a frame)
\* controls  : the controls that are not model parameters: the checked DeepEP
\*             mode radio and the two animate checkboxes
\* effective : the effectiveMode each render site resolved last ("none" before)
\* loop      : AnimationController (requestId, 0 for null, and elapsedSeconds)
\*             and the animation-frame requests the browser holds (pending)
\* playhead  : the currentTimeMs of the last call of renderTimeline, Null before
\* handler   : the handler that is running ("none" when pc = "done")
VARIABLES params, timings, optimal, crossover, timeline, pc,
          controls, effective, loop, playhead, handler

vars == <<params, timings, optimal, crossover, timeline, pc,
          controls, effective, loop, playhead, handler>>

Null == [null |-> TRUE]

(***************************************************************************)
(* Numbers                                                                 *)
(***************************************************************************)
IAbs(i) == IF i < 0 THEN -i ELSE i

RECURSIVE GCD(_, _)
GCD(a, b) == IF b = 0 THEN a ELSE GCD(b, a % b)

RECURSIVE IPow2(_)
IPow2(k) == IF k <= 0 THEN 1 ELSE 2 * IPow2(k - 1)

\* the number of factors two of k > 0
RECURSIVE V2(_)
V2(k) == IF k % 2 = 0 THEN 1 + V2(k \div 2) ELSE 0

\* the canonical form of (n/d) * 2^e
Mk(n, d, e) ==
  IF d = 0 THEN <<(IF n > 0 THEN 1 ELSE IF n < 0 THEN -1 ELSE 0), 0, 0>>
  ELSE IF n = 0 THEN <<0, 1, 0>>
  ELSE LET g == GCD(IAbs(n), IAbs(d))
           s == IF d < 0 THEN -1 ELSE 1
           n1 == s * (n \div g)
           d1 == s * (d \div g)
           vn == V2(IAbs(n1))
           vd == V2(d1)
       IN <<n1 \div IPow2(vn), d1 \div IPow2(vd), e + vn - vd>>

Norm(n, d) == Mk(n, d, 0)

Q(n, d) == Norm(n, d)
R(n) == Norm(n, 1)

NaN == <<0, 0, 0>>
PosInf == <<1, 0, 0>>
NegInf == <<-1, 0, 0>>

isNaN(a) == a = NaN
isFinite(a) == a[2] # 0
Sgn(a) == IF a[1] > 0 THEN 1 ELSE IF a[1] < 0 THEN -1 ELSE 0

fNeg(a) == <<-a[1], a[2], a[3]>>

fAdd(a, b) ==
  IF isNaN(a) \/ isNaN(b) THEN NaN
  ELSE IF ~isFinite(a) THEN (IF ~isFinite(b) /\ b # a THEN NaN ELSE a)
  ELSE IF ~isFinite(b) THEN b
  ELSE IF a[1] = 0 THEN b
  ELSE IF b[1] = 0 THEN a
  ELSE LET m == IF a[3] < b[3] THEN a[3] ELSE b[3]
           na == a[1] * IPow2(a[3] - m)
           nb == b[1] * IPow2(b[3] - m)
           g == GCD(a[2], b[2])
       IN Mk(na * (b[2] \div g) + nb * (a[2] \div g), (a[2] \div g) * b[2], m)

fSub(a, b) == fAdd(a, fNeg(b))

fMul(a, b) ==
  IF isNaN(a) \/ isNaN(b) THEN NaN
  ELSE IF ~isFinite(a) \/ ~isFinite(b)
       THEN Norm(Sgn(a) * Sgn(b), 0)
  ELSE LET g1 == GCD(IAbs(a[1]), b[2])
           g2 == GCD(IAbs(b[1]), a[2])
       IN Mk((a[1] \div g1) * (b[1] \div g2), (a[2] \div g2) * (b[2] \div g1), a[3] + b[3])

fDiv(a, b) ==
  IF isNaN(a) \/ isNaN(b) THEN NaN
  ELSE IF ~isFinite(b) THEN (IF ~isFinite(a) THEN NaN ELSE R(0))
  ELSE IF ~isFinite(a) THEN (IF Sgn(b) < 0 THEN fNeg(a) ELSE a)
  ELSE IF b[1] = 0 THEN Norm(Sgn(a), 0)
  ELSE fMul(a, IF b[1] > 0 THEN <<b[2], b[1], -b[3]>> ELSE <<-b[2], -b[1], -b[3]>>)

\* p1/q1 < p2/q2 for naturals p1, p2 and positive q1, q2, by the continued
\* fraction expansion of the two sides (no product is formed)
RECURSIVE FracLt(_, _, _, _)
FracLt(p1, q1, p2, q2) ==
  LET i1 == p1 \div q1
      i2 == p2 \div q2
      r1 == p1 % q1
      r2 == p2 % q2
  IN IF i1 # i2 THEN i1 < i2
     ELSE IF r2 = 0 THEN FALSE
     ELSE IF r1 = 0 THEN TRUE
     ELSE FracLt(q2, r2, q1, r1)

RECURSIVE ILog2(_)
ILog2(n) == IF n <= 1 THEN 0 ELSE 1 + ILog2(n \div 2)

\* |a| < |b| for finite non-zero a, b; magnitudes two binary orders apart are
\* decided by their orders
MagLt(a, b) ==
  LET la == ILog2(IAbs(a[1])) - ILog2(a[2]) + a[3]
      lb == ILog2(IAbs(b[1])) - ILog2(b[2]) + b[3]
      m == IF a[3] < b[3] THEN a[3] ELSE b[3]
  IN IF la + 2 <= lb THEN TRUE
     ELSE IF lb + 2 <= la THEN FALSE
     ELSE FracLt(IAbs(a[1]) * IPow2(a[3] - m), a[2], IAbs(b[1]) * IPow2(b[3] - m), b[2])

fLt(a, b) ==
  IF isNaN(a) \/ isNaN(b) THEN FALSE
  ELSE IF ~isFinite(a) \/ ~isFinite(b)
       THEN (a # b) /\ (a = NegInf \/ b = PosInf)
  ELSE IF Sgn(a) # Sgn(b) THEN Sgn(a) < Sgn(b)
  ELSE IF Sgn(a) = 0 THEN FALSE
  ELSE IF Sgn(a) > 0 THEN MagLt(a, b)
  ELSE MagLt(b, a)

fEq(a, b) == ~isNaN(a) /\ ~isNaN(b) /\ a = b
fLe(a, b) == fLt(a, b) \/ fEq(a, b)
fGe(a, b) == fLe(b, a)
fGt(a, b) == fLt(b, a)

fMax(a, b) ==
  IF isNaN(a) \/ isNaN(b) THEN NaN ELSE IF fLt(a, b) THEN b ELSE a

fAbs(a) ==
  IF isFinite(a) THEN <<IAbs(a[1]), a[2], a[3]>> ELSE IF isNaN(a) THEN NaN ELSE PosInf

\* Math.pow(2, a), exact on the integers
pow2(a) == <<1, 1, a[1] * IPow2(a[3])>>

round(a) ==
  IF ~isFinite(a) THEN a
  ELSE LET n == IF a[3] >= 0 THEN a[1] * IPow2(a[3]) ELSE a[1]
           d == IF a[3] >= 0 THEN a[2] ELSE a[2] * IPow2(-a[3])
       IN R((2 * n + d) \div (2 * d))

\* a finite number as a quotient of two integers
NumOf(a) == IF a[3] >= 0 THEN a[1] * IPow2(a[3]) ELSE a[1]
DenOf(a) == IF a[3] >= 0 THEN a[2] ELSE a[2] * IPow2(-a[3])

\* the remainder operator %: the result has the sign of the dividend
fMod(a, b) ==
  IF isNaN(a) \/ isNaN(b) \/ ~isFinite(a) THEN NaN
  ELSE IF ~isFinite(b) THEN a
  ELSE IF b[1] = 0 THEN NaN
  ELSE LET g == GCD(DenOf(a), DenOf(b))
           x == IAbs(NumOf(a)) * (DenOf(b) \div g)
           y == IAbs(NumOf(b)) * (DenOf(a) \div g)
       IN Mk(Sgn(a) * (x % y), (DenOf(a) \div g) * DenOf(b), 0)

RECURSIVE ISqrtFrom(_, _)
ISqrtFrom(n, r) == IF r * r >= n THEN r ELSE ISqrtFrom(n, r + 1)

IsSquare(n) == ISqrtFrom(n, 0) * ISqrtFrom(n, 0) = n

\* Math.sqrt, exact on the numbers whose numerator, denominator and power of two
\* are squares
sqrt(a) ==
  IF isNaN(a) \/ a = NegInf THEN NaN
  ELSE IF a = PosInf THEN PosInf
  ELSE IF a[1] < 0 THEN NaN
  ELSE IF a[3] % 2 = 0
       THEN Mk(ISqrtFrom(a[1], 0), ISqrtFrom(a[2], 0), a[3] \div 2)
       ELSE Mk(ISqrtFrom(2 * a[1], 0), ISqrtFrom(a[2], 0), (a[3] - 1) \div 2)

IsPow2(n) == n >= 1 /\ IPow2(ILog2(n)) = n

\* Math.log2, exact on the powers of two
log2(a) ==
  IF isNaN(a) \/ a = NegInf THEN NaN
  ELSE IF a = PosInf THEN PosInf
  ELSE IF a[1] < 0 THEN NaN
  ELSE IF a[1] = 0 THEN NegInf
  ELSE R(ILog2(a[1]) - ILog2(a[2]) + a[3])

(***************************************************************************)
(* Section 2: model constants                                              *)
(***************************************************************************)
HIDDEN_DIMENSION == 6144
BYTES_PER_ELEMENT == 2
TOP_K_EXPERTS == 2

(***************************************************************************)
(* Section 3: performance model                                            *)
(***************************************************************************)
\* the skew taken off instead of added
structuralImbalance_Minus(skew) == fSub(R(1), fMul(Q(22, 10), skew))

structuralImbalance(skew) == fAdd(R(1), fMul(Q(22, 10), skew))

\* the logarithm taken of epRanks + 1
coordinationPenalty_PlusOne(epRanks) ==
  fAdd(R(1), fMul(Q(12, 100), log2(fAdd(epRanks, R(1)))))

coordinationPenalty(epRanks) == fAdd(R(1), fMul(Q(12, 100), log2(epRanks)))

calculateStragglerFactor(epRanks, skew) ==
  fMul(structuralImbalance(skew), coordinationPenalty(epRanks))

calculateBytesPerToken ==
  fMul(fMul(R(TOP_K_EXPERTS), R(HIDDEN_DIMENSION)), R(BYTES_PER_ELEMENT))

\* the latency left in microseconds
calculateDispatchTimeMs_LatencyUs(tokenCount, epRanks, latencyMicroseconds, bandwidthGBps) ==
  LET bandwidthBytesPerSec == fMul(bandwidthGBps, R(1000000000))
      totalBytes == fDiv(fMul(tokenCount, calculateBytesPerToken), epRanks)
      transferTimeMs == fMul(fDiv(totalBytes, bandwidthBytesPerSec), R(1000))
  IN fAdd(latencyMicroseconds, transferTimeMs)

\* the payload divided among the other ranks only
calculateDispatchTimeMs_OtherRanks(tokenCount, epRanks, latencyMicroseconds, bandwidthGBps) ==
  LET latencyMs == fDiv(latencyMicroseconds, R(1000))
      bandwidthBytesPerSec == fMul(bandwidthGBps, R(1000000000))
      totalBytes == fDiv(fMul(tokenCount, calculateBytesPerToken), fSub(epRanks, R(1)))
      transferTimeMs == fMul(fDiv(totalBytes, bandwidthBytesPerSec), R(1000))
  IN fAdd(latencyMs, transferTimeMs)

\* the payload multiplied by the number of ranks instead of divided by it
calculateDispatchTimeMs_TimesRanks(tokenCount, epRanks, latencyMicroseconds, bandwidthGBps) ==
  LET latencyMs == fDiv(latencyMicroseconds, R(1000))
      bandwidthBytesPerSec == fMul(bandwidthGBps, R(1000000000))
      totalBytes == fMul(fMul(tokenCount, calculateBytesPerToken), epRanks)
      transferTimeMs == fMul(fDiv(totalBytes, bandwidthBytesPerSec), R(1000))
  IN fAdd(latencyMs, transferTimeMs)

calculateDispatchTimeMs(tokenCount, epRanks, latencyMicroseconds, bandwidthGBps) ==
  LET latencyMs == fDiv(latencyMicroseconds, R(1000))
      bandwidthBytesPerSec == fMul(bandwidthGBps, R(1000000000))
      totalBytes == fDiv(fMul(tokenCount, calculateBytesPerToken), epRanks)
      transferTimeMs == fMul(fDiv(totalBytes, bandwidthBytesPerSec), R(1000))
  IN fAdd(latencyMs, transferTimeMs)

calculateComputeTimeMs(tokenCount, epRanks, computeUsPerToken, skew) ==
  LET routedTokens == fMul(tokenCount, R(TOP_K_EXPERTS))
      meanTokensPerExpert == fDiv(routedTokens, epRanks)
      randomVariationFactor ==
        fAdd(R(1), fDiv(Q(32, 10), sqrt(fMax(R(1), tokenCount))))
      stragglerFactor == calculateStragglerFactor(epRanks, skew)
      maxExpertLoad ==
        fMul(fMul(meanTokensPerExpert, randomVariationFactor), stragglerFactor)
  IN fDiv(fMul(maxExpertLoad, computeUsPerToken), R(1000))

\* the overlapped total with the communication time added on top of the bottleneck
calculateMoETimings_DboAdds(tokenCount, epRanks, latencyUs, bandwidthGBps, computeUsPerToken, skew) ==
  LET dispatchMs == calculateDispatchTimeMs(tokenCount, epRanks, latencyUs, bandwidthGBps)
      computeMs == calculateComputeTimeMs(tokenCount, epRanks, computeUsPerToken, skew)
      combineMs == dispatchMs
  IN [dispatchMs |-> dispatchMs, computeMs |-> computeMs, combineMs |-> combineMs,
      sequentialTotalMs |-> fAdd(fAdd(dispatchMs, computeMs), combineMs),
      dboOverlappedMs |-> fAdd(fMax(fAdd(dispatchMs, combineMs), computeMs),
                               fAdd(dispatchMs, combineMs))]

\* combine computed on its own, without the latency term
calculateMoETimings_CombineOwn(tokenCount, epRanks, latencyUs, bandwidthGBps, computeUsPerToken, skew) ==
  LET dispatchMs == calculateDispatchTimeMs(tokenCount, epRanks, latencyUs, bandwidthGBps)
      computeMs == calculateComputeTimeMs(tokenCount, epRanks, computeUsPerToken, skew)
      combineMs == calculateDispatchTimeMs(tokenCount, epRanks, R(0), bandwidthGBps)
  IN [dispatchMs |-> dispatchMs, computeMs |-> computeMs, combineMs |-> combineMs,
      sequentialTotalMs |-> fAdd(fAdd(dispatchMs, computeMs), combineMs),
      dboOverlappedMs |-> fMax(fAdd(dispatchMs, combineMs), computeMs)]

\* the overlapped total taken against dispatch alone
calculateMoETimings_DboOneLeg(tokenCount, epRanks, latencyUs, bandwidthGBps, computeUsPerToken, skew) ==
  LET dispatchMs == calculateDispatchTimeMs(tokenCount, epRanks, latencyUs, bandwidthGBps)
      computeMs == calculateComputeTimeMs(tokenCount, epRanks, computeUsPerToken, skew)
      combineMs == dispatchMs
  IN [dispatchMs |-> dispatchMs, computeMs |-> computeMs, combineMs |-> combineMs,
      sequentialTotalMs |-> fAdd(fAdd(dispatchMs, computeMs), combineMs),
      dboOverlappedMs |-> fMax(dispatchMs, computeMs)]

calculateMoETimings(tokenCount, epRanks, latencyUs, bandwidthGBps, computeUsPerToken, skew) ==
  LET dispatchMs == calculateDispatchTimeMs(tokenCount, epRanks, latencyUs, bandwidthGBps)
      computeMs == calculateComputeTimeMs(tokenCount, epRanks, computeUsPerToken, skew)
      combineMs == dispatchMs
      sequentialTotalMs == fAdd(fAdd(dispatchMs, computeMs), combineMs)
      dboOverlappedMs == fMax(fAdd(dispatchMs, combineMs), computeMs)
  IN [dispatchMs |-> dispatchMs, computeMs |-> computeMs, combineMs |-> combineMs,
      sequentialTotalMs |-> sequentialTotalMs, dboOverlappedMs |-> dboOverlappedMs]

(***************************************************************************)
(* Section 4: DeepEP model (low-latency vs high-throughput)                *)
(***************************************************************************)
\* the high-throughput profile with the latency factor of the low-latency one
getParameters_HtLatencyOfLl(mode, baseLatencyUs, baseBandwidthGBps) ==
  LET baseLatencyMs == fDiv(baseLatencyUs, R(1000))
  IN IF mode = "ll"
     THEN [name |-> "Low-latency",
           latencyMs |-> fMul(Q(55, 100), baseLatencyMs),
           bandwidthGBps |-> fMul(Q(70, 100), baseBandwidthGBps)]
     ELSE [name |-> "High-throughput",
           latencyMs |-> fMul(Q(55, 100), baseLatencyMs),
           bandwidthGBps |-> fMul(Q(135, 100), baseBandwidthGBps)]

getParameters(mode, baseLatencyUs, baseBandwidthGBps) ==
  LET baseLatencyMs == fDiv(baseLatencyUs, R(1000))
  IN IF mode = "ll"
     THEN [name |-> "Low-latency",
           latencyMs |-> fMul(Q(55, 100), baseLatencyMs),
           bandwidthGBps |-> fMul(Q(70, 100), baseBandwidthGBps)]
     ELSE [name |-> "High-throughput",
           latencyMs |-> fMul(Q(115, 100), baseLatencyMs),
           bandwidthGBps |-> fMul(Q(135, 100), baseBandwidthGBps)]

calculateCommTimeMs(tokenCount, epRanks, mode, baseLatencyUs, baseBandwidthGBps) ==
  LET totalBytes == fDiv(fMul(tokenCount, calculateBytesPerToken), epRanks)
      prm == getParameters(mode, baseLatencyUs, baseBandwidthGBps)
      bandwidthBytesPerSec == fMul(prm.bandwidthGBps, R(1000000000))
      transferTimeMs == fMul(fDiv(totalBytes, bandwidthBytesPerSec), R(1000))
  IN fMul(R(2), fAdd(prm.latencyMs, transferTimeMs))

\* a strict comparison: ties go to 'ht'
pickOptimalMode_Strict(tokenCount, epRanks, baseLatencyUs, baseBandwidthGBps) ==
  LET llTime == calculateCommTimeMs(tokenCount, epRanks, "ll", baseLatencyUs, baseBandwidthGBps)
      htTime == calculateCommTimeMs(tokenCount, epRanks, "ht", baseLatencyUs, baseBandwidthGBps)
  IN IF fLt(llTime, htTime) THEN "ll" ELSE "ht"

pickOptimalMode(tokenCount, epRanks, baseLatencyUs, baseBandwidthGBps) ==
  LET llTime == calculateCommTimeMs(tokenCount, epRanks, "ll", baseLatencyUs, baseBandwidthGBps)
      htTime == calculateCommTimeMs(tokenCount, epRanks, "ht", baseLatencyUs, baseBandwidthGBps)
  IN IF fLe(llTime, htTime) THEN "ll" ELSE "ht"

(***************************************************************************)
(* Section 12: timeline schedule                                           *)
(***************************************************************************)
Block(phase, start, duration) == [phase |-> phase, start |-> start, duration |-> duration]

\* combineB waits for batch B's compute only, not for the fabric
_buildSchedule_CombineBNoFabric(tm, opts) ==
  LET d == IF opts.enableSplit THEN fDiv(tm.dispatchMs, R(2)) ELSE tm.dispatchMs
      c == IF opts.enableSplit THEN fDiv(tm.computeMs, R(2)) ELSE tm.computeMs
      b == IF opts.enableSplit THEN fDiv(tm.combineMs, R(2)) ELSE tm.combineMs
  IN IF ~opts.enableDBO
     THEN [batchA |-> <<Block("dispatch", R(0), d), Block("compute", d, c),
                        Block("combine", fAdd(d, c), b)>>,
           batchB |-> <<>>]
     ELSE LET computeB == fMax(fAdd(d, d), fAdd(d, c))
              combineA == fMax(fAdd(d, c), fAdd(d, d))
          IN [batchA |-> <<Block("dispatch", R(0), d), Block("compute", d, c),
                           Block("combine", combineA, b)>>,
              batchB |-> <<Block("dispatch", d, d), Block("compute", computeB, c),
                           Block("combine", fAdd(computeB, c), b)>>]

\* computeB waits for its own dispatch only, not for the compute engine
_buildSchedule_ComputeBNoEngine(tm, opts) ==
  LET d == IF opts.enableSplit THEN fDiv(tm.dispatchMs, R(2)) ELSE tm.dispatchMs
      c == IF opts.enableSplit THEN fDiv(tm.computeMs, R(2)) ELSE tm.computeMs
      b == IF opts.enableSplit THEN fDiv(tm.combineMs, R(2)) ELSE tm.combineMs
  IN IF ~opts.enableDBO
     THEN [batchA |-> <<Block("dispatch", R(0), d), Block("compute", d, c),
                        Block("combine", fAdd(d, c), b)>>,
           batchB |-> <<>>]
     ELSE LET computeB == fAdd(d, d)
              combineA == fMax(fAdd(d, c), fAdd(d, d))
              combineB == fMax(fAdd(computeB, c), fAdd(combineA, b))
          IN [batchA |-> <<Block("dispatch", R(0), d), Block("compute", d, c),
                           Block("combine", combineA, b)>>,
              batchB |-> <<Block("dispatch", d, d), Block("compute", computeB, c),
                           Block("combine", combineB, b)>>]

\* combineA waits for batch A's compute only, not for the fabric
_buildSchedule_CombineANoFabric(tm, opts) ==
  LET d == IF opts.enableSplit THEN fDiv(tm.dispatchMs, R(2)) ELSE tm.dispatchMs
      c == IF opts.enableSplit THEN fDiv(tm.computeMs, R(2)) ELSE tm.computeMs
      b == IF opts.enableSplit THEN fDiv(tm.combineMs, R(2)) ELSE tm.combineMs
  IN IF ~opts.enableDBO
     THEN [batchA |-> <<Block("dispatch", R(0), d), Block("compute", d, c),
                        Block("combine", fAdd(d, c), b)>>,
           batchB |-> <<>>]
     ELSE LET computeB == fMax(fAdd(d, d), fAdd(d, c))
              combineA == fAdd(d, c)
              combineB == fMax(fAdd(computeB, c), fAdd(combineA, b))
          IN [batchA |-> <<Block("dispatch", R(0), d), Block("compute", d, c),
                           Block("combine", combineA, b)>>,
              batchB |-> <<Block("dispatch", d, d), Block("compute", computeB, c),
                           Block("combine", combineB, b)>>]

\* computeB waits for the compute engine only, not for batch B's dispatch
_buildSchedule_ComputeBNoArrival(tm, opts) ==
  LET d == IF opts.enableSplit THEN fDiv(tm.dispatchMs, R(2)) ELSE tm.dispatchMs
      c == IF opts.enableSplit THEN fDiv(tm.computeMs, R(2)) ELSE tm.computeMs
      b == IF opts.enableSplit THEN fDiv(tm.combineMs, R(2)) ELSE tm.combineMs
  IN IF ~opts.enableDBO
     THEN [batchA |-> <<Block("dispatch", R(0), d), Block("compute", d, c),
                        Block("combine", fAdd(d, c), b)>>,
           batchB |-> <<>>]
     ELSE LET computeB == fAdd(d, c)
              combineA == fMax(fAdd(d, c), fAdd(d, d))
              combineB == fMax(fAdd(computeB, c), fAdd(combineA, b))
          IN [batchA |-> <<Block("dispatch", R(0), d), Block("compute", d, c),
                           Block("combine", combineA, b)>>,
              batchB |-> <<Block("dispatch", d, d), Block("compute", computeB, c),
                           Block("combine", combineB, b)>>]

\* split halves the two transfers but not the compute phase
_buildSchedule_SplitSkipsCompute(tm, opts) ==
  LET d == IF opts.enableSplit THEN fDiv(tm.dispatchMs, R(2)) ELSE tm.dispatchMs
      c == tm.computeMs
      b == IF opts.enableSplit THEN fDiv(tm.combineMs, R(2)) ELSE tm.combineMs
  IN IF ~opts.enableDBO
     THEN [batchA |-> <<Block("dispatch", R(0), d), Block("compute", d, c),
                        Block("combine", fAdd(d, c), b)>>,
           batchB |-> <<>>]
     ELSE LET computeB == fMax(fAdd(d, d), fAdd(d, c))
              combineA == fMax(fAdd(d, c), fAdd(d, d))
              combineB == fMax(fAdd(computeB, c), fAdd(combineA, b))
          IN [batchA |-> <<Block("dispatch", R(0), d), Block("compute", d, c),
                           Block("combine", combineA, b)>>,
              batchB |-> <<Block("dispatch", d, d), Block("compute", computeB, c),
                           Block("combine", combineB, b)>>]

\* combineB starts after batch B's compute and batch A's combine one after the
\* other: the sum of the two ends instead of the later one
_buildSchedule_CombineBAfterSum(tm, opts) ==
  LET d == IF opts.enableSplit THEN fDiv(tm.dispatchMs, R(2)) ELSE tm.dispatchMs
      c == IF opts.enableSplit THEN fDiv(tm.computeMs, R(2)) ELSE tm.computeMs
      b == IF opts.enableSplit THEN fDiv(tm.combineMs, R(2)) ELSE tm.combineMs
  IN IF ~opts.enableDBO
     THEN [batchA |-> <<Block("dispatch", R(0), d), Block("compute", d, c),
                        Block("combine", fAdd(d, c), b)>>,
           batchB |-> <<>>]
     ELSE LET computeB == fMax(fAdd(d, d), fAdd(d, c))
              combineA == fMax(fAdd(d, c), fAdd(d, d))
              combineB == fAdd(fAdd(computeB, c), fAdd(combineA, b))
          IN [batchA |-> <<Block("dispatch", R(0), d), Block("compute", d, c),
                           Block("combine", combineA, b)>>,
              batchB |-> <<Block("dispatch", d, d), Block("compute", computeB, c),
                           Block("combine", combineB, b)>>]

_buildSchedule(tm, opts) ==
  LET d == IF opts.enableSplit THEN fDiv(tm.dispatchMs, R(2)) ELSE tm.dispatchMs
      c == IF opts.enableSplit THEN fDiv(tm.computeMs, R(2)) ELSE tm.computeMs
      b == IF opts.enableSplit THEN fDiv(tm.combineMs, R(2)) ELSE tm.combineMs
  IN IF ~opts.enableDBO
     THEN LET t0 == R(0)
              t1 == fAdd(t0, d)
              t2 == fAdd(t1, c)
          IN [batchA |-> <<Block("dispatch", t0, d), Block("compute", t1, c),
                           Block("combine", t2, b)>>,
              batchB |-> <<>>]
     ELSE LET dispatchA == R(0)
              dispatchB == fAdd(dispatchA, d)
              computeA == fAdd(dispatchA, d)
              computeB == fMax(fAdd(dispatchB, d), fAdd(computeA, c))
              combineA == fMax(fAdd(computeA, c), fAdd(dispatchB, d))
              combineB == fMax(fAdd(computeB, c), fAdd(combineA, b))
          IN [batchA |-> <<Block("dispatch", dispatchA, d), Block("compute", computeA, c),
                           Block("combine", combineA, b)>>,
              batchB |-> <<Block("dispatch", dispatchB, d), Block("compute", computeB, c),
                           Block("combine", combineB, b)>>]

\* the sequential total taken as the last block's start
_calculateTotalDuration_LastStart(sched, enableDBO) ==
  IF ~enableDBO
  THEN sched.batchA[Len(sched.batchA)].start
  ELSE LET lastA == sched.batchA[Len(sched.batchA)]
           lastB == sched.batchB[Len(sched.batchB)]
       IN fMax(fAdd(lastA.start, lastA.duration), fAdd(lastB.start, lastB.duration))

_calculateTotalDuration(sched, enableDBO) ==
  IF ~enableDBO
  THEN LET lastBlock == sched.batchA[Len(sched.batchA)]
       IN fAdd(lastBlock.start, lastBlock.duration)
  ELSE LET lastA == sched.batchA[Len(sched.batchA)]
           lastB == sched.batchB[Len(sched.batchB)]
       IN fMax(fAdd(lastA.start, lastA.duration), fAdd(lastB.start, lastB.duration))

\* the axis extent taken from the totals of the Timings record
draw_TotalFromTimings(tm, opts) ==
  [options |-> opts, schedule |-> _buildSchedule(tm, opts),
   totalMs |-> IF opts.enableDBO THEN tm.dboOverlappedMs ELSE tm.sequentialTotalMs]

\* TimelineRenderer.draw: the schedule and the axis extent it is drawn on
draw(tm, opts) ==
  LET sched == _buildSchedule(tm, opts)
  IN [options |-> opts, schedule |-> sched,
      totalMs |-> _calculateTotalDuration(sched, opts.enableDBO)]

(***************************************************************************)
(* Section 14: DeepEP curve and crossover scan                             *)
(***************************************************************************)
MIN_EXP == -3
\* 19 in the source; the sampled range is bounded here
MAX_EXP == 1
\* 150 in the source; here one sample per integer exponent
SAMPLES == MAX_EXP - MIN_EXP + 1

CurvePoint(i, p) ==
  LET exp == fAdd(R(MIN_EXP), fMul(R(MAX_EXP - MIN_EXP), fDiv(R(i), R(SAMPLES - 1))))
      tokens == fMax(R(1), round(fMul(pow2(exp), R(8))))
      llTime == fMax(Q(1, 1000),
                     calculateCommTimeMs(tokens, p.epRanks, "ll", p.latencyUs, p.bandwidthGBps))
      htTime == fMax(Q(1, 1000),
                     calculateCommTimeMs(tokens, p.epRanks, "ht", p.latencyUs, p.bandwidthGBps))
  IN [tokens |-> tokens, llTime |-> llTime, htTime |-> htTime]

_generateCurveData(p) == [i \in 1..SAMPLES |-> CurvePoint(i - 1, p)]

\* The scan of _drawCurveLines.  crossoverTokens is exp(logT1 + t*(logT2 - logT1));
\* Math.log and Math.exp are not rational, so the value is kept as the two
\* bracketing samples and the interpolation weight t.
RECURSIVE scanFrom(_, _)
scanFrom(points, i) ==
  IF i > Len(points) - 1 THEN Null
  ELSE LET p1 == points[i]
           p2 == points[i + 1]
           diff1 == fSub(p1.llTime, p1.htTime)
           diff2 == fSub(p2.llTime, p2.htTime)
       IN IF fLt(diff1, R(0)) /\ fGe(diff2, R(0))
          THEN [lo |-> p1.tokens, hi |-> p2.tokens,
                t |-> fDiv(fAbs(diff1), fAdd(fAbs(diff1), fAbs(diff2)))]
          ELSE scanFrom(points, i + 1)

findCrossover(points) == scanFrom(points, 1)

(***************************************************************************)
(* Inputs                                                                  *)
(***************************************************************************)
MaxTokExp == 2
MaxEpExp == 2
MaxLatencySteps == 1
MaxDur == 3

RECURSIVE IPow4(_)
IPow4(k) == IF k <= 0 THEN 1 ELSE 4 * IPow4(k - 1)

\* token counts: 0 and the powers of four (Math.sqrt is exact on them)
TokenValues == {R(0)} \cup {R(IPow4(k)) : k \in 0..MaxTokExp}
\* expert parallelism: the invalid -1 and 0, and the powers of two (Math.log2 is exact)
EpValues == {R(-1), R(0)} \cup {R(IPow2(j)) : j \in 0..MaxEpExp}
LatencyValues == {R(25 * k) : k \in 0..MaxLatencySteps}
\* bandwidth in GB/s: the invalid -1 and 0, and two valid values
BandwidthValues == {R(-1), R(0), Q(1, 2), R(1)}
ComputeValues == {R(0), Q(45, 100), R(20)}
SkewValues == {R(0), Q(1, 10), R(1)}

ParamValues ==
  [tokenCount : TokenValues, epRanks : EpValues, latencyUs : LatencyValues,
   bandwidthGBps : BandwidthValues, computeUsPerToken : ComputeValues, skew : SkewValues]

OptionValues == [enableDBO : BOOLEAN, enableSplit : BOOLEAN]

(***************************************************************************)
(* Section 6: animation state                                              *)
(***************************************************************************)
\* the frame requests the browser holds at most (requests are refused beyond)
MaxPending == 2
\* the animation clock stops at this many milliseconds
MaxElapsedMs == 1
\* the time between two frames in milliseconds
FrameDeltaMs == {1}

\* requestAnimationFrame returns a handle that is neither pending nor used
\* before: here the least one that is not pending and not in used, the handles
\* the caller knows to be used up
FreshId(lp, used) ==
  CHOOSE i \in 1..(MaxPending + 2) :
    /\ i \notin lp.pending \cup used
    /\ \A j \in 1..(i - 1) : j \in lp.pending \cup used

\* this.requestId = requestAnimationFrame(loop)
requestFrame(lp, used) ==
  [lp EXCEPT !.requestId = FreshId(lp, used), !.pending = @ \cup {FreshId(lp, used)}]

\* the browser takes the request id off its list and calls loop
fired(lp, id) == [lp EXCEPT !.pending = @ \ {id}]

\* AnimationController.reset
reset(lp) == [lp EXCEPT !.elapsedSeconds = R(0)]

\* start requests a frame although a loop is running
start_NoGuard(lp) == requestFrame(lp, {})

\* AnimationController.start
start(lp) == IF lp.requestId # 0 THEN lp ELSE requestFrame(lp, {})

\* AnimationController.stop
stop(lp) ==
  IF lp.requestId # 0
  THEN [lp EXCEPT !.pending = @ \ {lp.requestId}, !.requestId = 0]
  ELSE lp

\* AnimationController.tick, deltaMs = now - lastFrameTime
tick(lp, deltaMs) ==
  [lp EXCEPT !.elapsedSeconds = fAdd(@, fDiv(R(deltaMs), R(1000)))]

Idle == [requestId |-> 0, pending |-> {}, elapsedSeconds |-> R(0)]

(***************************************************************************)
(* Section 8: control state                                                *)
(***************************************************************************)
ModeValues == {"auto", "ll", "ht"}

ControlStates == [radio : ModeValues, animate : BOOLEAN, deepepAnimate : BOOLEAN]

\* ControlState.getDeepEPMode
getDeepEPMode ==
  IF controls.radio = "ll" THEN "ll" ELSE IF controls.radio = "ht" THEN "ht" ELSE "auto"

\* the mode a render site works with (updateDeepEPLabels, _drawCurveCurrentPoint,
\* drawTopology, DeepEPRenderer.drawTimeline)
effectiveMode ==
  LET selectedMode == getDeepEPMode
  IN IF selectedMode = "auto"
     THEN pickOptimalMode(params.tokenCount, params.epRanks,
                          params.latencyUs, params.bandwidthGBps)
     ELSE selectedMode

NoMode == [labels |-> "none", curve |-> "none", topology |-> "none", timeline |-> "none"]

(***************************************************************************)
(* Section 16: main render loop and event handling                         *)
(***************************************************************************)
computeCurrentTimings ==
  calculateMoETimings(params.tokenCount, params.epRanks, params.latencyUs,
                      params.bandwidthGBps, params.computeUsPerToken, params.skew)

\* renderStaticContent (lines 2001, 2004, 2005-2007) runs in the steps
\* ComputeTimings, PickOptimal, DrawCurve; renderAll goes on with renderTimeline
\* (line 2023), onStateChange with the animation loop (lines 2066-2075).

\* renderStaticContent keeps a Timings record once it has one
ComputeTimings_KeepCache ==
  /\ pc = "timings"
  /\ timings' = (IF timings # Null THEN timings ELSE computeCurrentTimings)
  /\ pc' = "labels"
  /\ UNCHANGED <<params, optimal, crossover, timeline>>
  /\ UNCHANGED <<controls, effective, loop, playhead, handler>>

\* renderStaticContent: cachedTimings = computeCurrentTimings()
ComputeTimings ==
  /\ pc = "timings"
  /\ timings' = computeCurrentTimings
  /\ pc' = "labels"
  /\ UNCHANGED <<params, optimal, crossover, timeline>>
  /\ UNCHANGED <<controls, effective, loop, playhead, handler>>

\* LabelUpdater.updateDeepEPLabels
PickOptimal ==
  /\ pc = "labels"
  /\ effective' = [effective EXCEPT !.labels = effectiveMode]
  /\ optimal' = (IF getDeepEPMode = "auto" THEN effective'.labels ELSE optimal)
  /\ pc' = "curve"
  /\ UNCHANGED <<params, timings, crossover, timeline>>
  /\ UNCHANGED <<controls, loop, playhead, handler>>

\* drawTimeline works with the checked radio as it is, 'auto' included
DrawCurve_TimelineAsSelected ==
  /\ pc = "curve"
  /\ crossover' = findCrossover(_generateCurveData(params))
  /\ \E m \in {effectiveMode} :
       effective' = [effective EXCEPT !.curve = m, !.topology = m,
                                      !.timeline = getDeepEPMode]
  /\ pc' = (IF handler = "onStateChange" THEN "animation" ELSE "timeline")
  /\ UNCHANGED <<params, timings, optimal, timeline>>
  /\ UNCHANGED <<controls, loop, playhead, handler>>

\* DeepEPRenderer.drawCurve, drawTopology and drawTimeline, each with its own
\* effectiveMode
DrawCurve ==
  /\ pc = "curve"
  /\ crossover' = findCrossover(_generateCurveData(params))
  /\ \E m \in {effectiveMode} :
       effective' = [effective EXCEPT !.curve = m, !.topology = m, !.timeline = m]
  /\ pc' = (IF handler = "onStateChange" THEN "animation" ELSE "timeline")
  /\ UNCHANGED <<params, timings, optimal, timeline>>
  /\ UNCHANGED <<controls, loop, playhead, handler>>

\* onStateChange after renderStaticContent: the loop is started, or stopped and
\* the timeline drawn once
StartOrStop ==
  /\ pc = "animation"
  /\ Cardinality(loop.pending) <= MaxPending
  /\ IF controls.animate \/ controls.deepepAnimate
     THEN loop' = start(loop) /\ pc' = "done" /\ handler' = "none"
     ELSE loop' = stop(loop) /\ pc' = "timeline" /\ handler' = handler
  /\ UNCHANGED <<params, timings, optimal, crossover, timeline>>
  /\ UNCHANGED <<controls, effective, playhead>>

\* onStateChange: a render call of renderStaticContent threw and the catch
\* clause logged the error
CatchError ==
  /\ pc \in {"labels", "curve"} /\ handler = "onStateChange"
  /\ pc' = "done" /\ handler' = "none"
  /\ UNCHANGED <<params, timings, optimal, crossover, timeline>>
  /\ UNCHANGED <<controls, effective, loop, playhead>>

\* cachedTimings || computeCurrentTimings()
timingsInUse == IF timings # Null THEN timings ELSE computeCurrentTimings

\* renderTimeline: TimelineRenderer.draw(cachedTimings || computeCurrentTimings(), options)
renderTimeline(opts) == draw(timingsInUse, opts)

\* animationTick: the length of one animation cycle
cycleDuration(tm, opts) ==
  LET d == IF opts.enableSplit THEN fDiv(tm.dispatchMs, R(2)) ELSE tm.dispatchMs
      c == IF opts.enableSplit THEN fDiv(tm.computeMs, R(2)) ELSE tm.computeMs
      b == IF opts.enableSplit THEN fDiv(tm.combineMs, R(2)) ELSE tm.combineMs
  IN IF ~opts.enableDBO
     THEN fMul(fAdd(fAdd(d, c), b), R(2))
     ELSE fAdd(fAdd(fAdd(fAdd(d, c), b), fMul(R(2), fMax(fAdd(d, b), c))), fAdd(d, b))

\* animationTick: the currentTimeMs passed to renderTimeline
currentTimeMs(elapsed, tm, opts) ==
  IF controls.animate
  THEN fMod(fMul(elapsed, R(1000)), cycleDuration(tm, opts))
  ELSE R(0)

\* a frame is due: the handlers are done and the browser holds a request
FrameDue == pc = "done" /\ loop.pending # {}

\* the halved durations written back into the Timings record
DrawTimeline_SplitWritesBack ==
  /\ \/ pc = "timeline"
     \/ FrameDue /\ (controls.animate \/ controls.deepepAnimate)
  /\ \E opts \in OptionValues :
       /\ timeline' = renderTimeline(opts)
       /\ timings' = (IF opts.enableSplit
                      THEN [timings EXCEPT !.dispatchMs = fDiv(@, R(2)),
                                           !.computeMs = fDiv(@, R(2)),
                                           !.combineMs = fDiv(@, R(2))]
                      ELSE timings)
  /\ playhead' = R(0)
  /\ pc' = "done" /\ handler' = "none"
  /\ UNCHANGED <<params, optimal, crossover, controls, effective, loop>>

\* renderTimeline called: by renderAll (line 2023) and by the resize callback
\* after it (which starts the loop when the animate checkbox is checked), by
\* onStateChange with the loop stopped (lines 2073-2074), or by a frame callback
\* with a checkbox checked (loop, lines 297-298, and animationTick, lines
\* 2035-2060: the tick is taken, the timeline and the topology are drawn and
\* the next frame is requested)
DrawTimeline ==
  /\ \/ pc = "timeline"
     \/ FrameDue /\ (controls.animate \/ controls.deepepAnimate)
  /\ Cardinality(loop.pending) <= MaxPending
  /\ \E opts \in OptionValues, tm \in {timingsInUse} :
       /\ timeline' = draw(tm, opts)
       /\ IF pc = "done"
          THEN \E id \in loop.pending, deltaMs \in FrameDeltaMs :
                 /\ loop' = requestFrame(tick(fired(loop, id), deltaMs), {id})
                 /\ fLe(loop'.elapsedSeconds, Q(MaxElapsedMs, 1000))
                 /\ playhead' = currentTimeMs(loop'.elapsedSeconds, tm, opts)
          ELSE /\ \E resized \in BOOLEAN :
                    loop' = (IF resized /\ handler = "renderAll" /\ controls.animate
                             THEN start(loop) ELSE loop)
               /\ playhead' = R(0)
  /\ effective' = (IF pc = "done" \/ handler = "onStateChange"
                   THEN [effective EXCEPT !.topology = effectiveMode]
                   ELSE effective)
  /\ pc' = "done" /\ handler' = "none"
  /\ UNCHANGED <<params, timings, optimal, crossover, controls>>

\* a frame callback with both animate checkboxes unchecked: animationTick stops
\* the loop and returns (lines 2030-2033), loop requests the next frame (line 298)
AnimationTickStop ==
  /\ FrameDue /\ ~controls.animate /\ ~controls.deepepAnimate
  /\ \E id \in loop.pending : loop' = requestFrame(stop(fired(loop, id)), {id})
  /\ UNCHANGED <<params, timings, optimal, crossover, timeline, pc>>
  /\ UNCHANGED <<controls, effective, playhead, handler>>

\* the parameter sets the controls move between
ControlValues ==
  [tokenCount : {R(1), R(16)}, epRanks : {R(1), R(4)}, latencyUs : {R(25)},
   bandwidthGBps : {Q(1, 2), R(1)}, computeUsPerToken : {Q(45, 100)}, skew : {Q(1, 10)}]

\* syncHandler: a slider or the DBO or split checkbox was moved and
\* onStateChange begins (renderStaticContent is next)
ChangeControls ==
  /\ pc = "done"
  /\ \E p \in ControlValues : params' = p
  /\ pc' = "timings" /\ handler' = "onStateChange"
  /\ UNCHANGED <<timings, optimal, crossover, timeline>>
  /\ UNCHANGED <<controls, effective, loop, playhead>>

\* the parameter sets of the preset buttons (lines 2089-2099) differ in every
\* slider and pick 'ht' in auto mode; their token counts (512, 524288) are
\* beyond the exact square roots of the number layer, so two parameter sets that
\* differ in the token count and pick 'ht' stand for them
PresetValues ==
  [tokenCount : {R(4), R(16)}, epRanks : {R(4)}, latencyUs : {R(25)},
   bandwidthGBps : {R(1)}, computeUsPerToken : {Q(45, 100)}, skew : {Q(1, 10)}]

\* the controls are set and the clock is reset, but onStateChange is not called
ApplyPreset_NoStateChange ==
  /\ pc = "done"
  /\ \E p \in PresetValues : params' = p
  /\ controls' = [controls EXCEPT !.animate = TRUE]
  /\ loop' = reset(loop)
  /\ UNCHANGED <<timings, optimal, crossover, timeline, pc>>
  /\ UNCHANGED <<effective, playhead, handler>>

\* a preset button: ControlState.applyToControls sets the sliders, checks the
\* animate checkbox, resets the animation clock and calls onStateChange
ApplyPreset ==
  /\ pc = "done"
  /\ \E p \in PresetValues : params' = p
  /\ controls' = [controls EXCEPT !.animate = TRUE]
  /\ loop' = reset(loop)
  /\ pc' = "timings" /\ handler' = "onStateChange"
  /\ UNCHANGED <<timings, optimal, crossover, timeline, effective, playhead>>

\* an animate checkbox was clicked: onStateChange begins
ToggleAnimation ==
  /\ pc = "done"
  /\ \/ controls' = [controls EXCEPT !.animate = ~@]
     \/ controls' = [controls EXCEPT !.deepepAnimate = ~@]
  /\ pc' = "timings" /\ handler' = "onStateChange"
  /\ UNCHANGED <<params, timings, optimal, crossover, timeline>>
  /\ UNCHANGED <<effective, loop, playhead>>

\* a DeepEP mode radio was checked: onStateChange begins
SelectMode ==
  /\ pc = "done"
  /\ \E m \in ModeValues \ {controls.radio} : controls' = [controls EXCEPT !.radio = m]
  /\ pc' = "timings" /\ handler' = "onStateChange"
  /\ UNCHANGED <<params, timings, optimal, crossover, timeline>>
  /\ UNCHANGED <<effective, loop, playhead>>

\* the colour scheme changed (renderAll), or the debounced resize callback runs
\* (renderAll, then start when the animate checkbox is checked)
BeginRenderAll ==
  /\ pc = "done"
  /\ handler' = "renderAll"
  /\ pc' = "timings"
  /\ UNCHANGED <<params, timings, optimal, crossover, timeline>>
  /\ UNCHANGED <<controls, effective, loop, playhead>>

(***************************************************************************)
(* CostSpec: renderAll on every parameter set of ParamValues               *)
(***************************************************************************)
CostInit ==
  /\ params \in ParamValues
  /\ timings = Null
  /\ optimal = "none"
  /\ crossover = Null
  /\ timeline = Null
  /\ pc = "timings"
  /\ controls = [radio |-> "auto", animate |-> FALSE, deepepAnimate |-> FALSE]
  /\ effective = NoMode
  /\ loop = Idle
  /\ playhead = Null
  /\ handler = "renderAll"

CostNext == ComputeTimings \/ PickOptimal \/ DrawCurve \/ DrawTimeline

CostSpec == CostInit /\ [][CostNext]_vars

(***************************************************************************)
(* SchedSpec: the scheduler applied to caller-supplied Timings             *)
(***************************************************************************)
DEFAULT_PARAMETERS ==
  [tokenCount |-> R(8192), epRanks |-> R(16), latencyUs |-> R(25),
   bandwidthGBps |-> R(25), computeUsPerToken |-> Q(45, 100), skew |-> Q(10, 100)]

DurValues == {R(k) : k \in -1..MaxDur} \cup {PosInf, NegInf, NaN}

SuppliedTimings ==
  {[dispatchMs |-> d, computeMs |-> c, combineMs |-> b,
    sequentialTotalMs |-> fAdd(fAdd(d, c), b),
    dboOverlappedMs |-> fMax(fAdd(d, b), c)] : d \in DurValues, c \in DurValues, b \in DurValues}

SchedInit ==
  /\ params = DEFAULT_PARAMETERS
  /\ timings \in SuppliedTimings
  /\ optimal = "none"
  /\ crossover = Null
  /\ timeline = Null
  /\ pc = "timeline"
  /\ controls = [radio |-> "auto", animate |-> FALSE, deepepAnimate |-> FALSE]
  /\ effective = NoMode
  /\ loop = Idle
  /\ playhead = Null
  /\ handler = "renderAll"

SchedNext == DrawTimeline

SchedSpec == SchedInit /\ [][SchedNext]_vars

(***************************************************************************)
(* ScenarioSpec: renderAll on the parameter sets around the self tests     *)
(***************************************************************************)
\* the parameter sets of runSelfTests with their neighbours in token count,
\* parallelism and skew
SelfTestValues ==
  [tokenCount : {R(256), R(1024), R(4096)}, epRanks : {R(1), R(16)},
   latencyUs : {R(25)}, bandwidthGBps : {R(25)}, computeUsPerToken : {Q(45, 100)},
   skew : {R(0), Q(1, 10), R(1)}]

\* the two token counts of the third self test on a fabric without latency (with
\* a latency the sums at 1,048,576 tokens have numerators beyond 32 bits)
LargeBatchValues ==
  [tokenCount : {R(256), R(1048576)}, epRanks : {R(1), R(16)},
   latencyUs : {R(0)}, bandwidthGBps : {R(1), R(25)},
   computeUsPerToken : {Q(45, 100), R(20)}, skew : {R(0), Q(1, 10), R(1)}]

ScenarioValues == SelfTestValues \cup LargeBatchValues

ScenarioInit ==
  /\ params \in ScenarioValues
  /\ timings = Null
  /\ optimal = "none"
  /\ crossover = Null
  /\ timeline = Null
  /\ pc = "timings"
  /\ controls = [radio |-> "auto", animate |-> FALSE, deepepAnimate |-> FALSE]
  /\ effective = NoMode
  /\ loop = Idle
  /\ playhead = Null
  /\ handler = "renderAll"

ScenarioSpec == ScenarioInit /\ [][CostNext]_vars

(***************************************************************************)
(* WidgetSpec: the page in use: renders, control changes, animation frames *)
(***************************************************************************)
WidgetInit ==
  /\ params \in ControlValues
  /\ timings = Null
  /\ optimal = "none"
  /\ crossover = Null
  /\ timeline = Null
  /\ pc = "timings"
  /\ controls = [radio |-> "auto", animate |-> FALSE, deepepAnimate |-> FALSE]
  /\ effective = NoMode
  /\ loop = Idle
  /\ playhead = Null
  /\ handler = "renderAll"

WidgetNext ==
  \/ ComputeTimings \/ PickOptimal \/ DrawCurve \/ StartOrStop \/ DrawTimeline
  \/ ChangeControls

WidgetSpec == WidgetInit /\ [][WidgetNext]_vars

(***************************************************************************)
(* LoopSpec: the page from initialize on, with the animation loop          *)
(***************************************************************************)
(* Specification CurveSpec: renderAll with parameter points whose LL/HT    *)
(* crossover falls inside the sampled token range, among them              *)
(* sub-microsecond latencies, where the round trips are below the 0.001 ms *)
(* floor of _generateCurveData.                                            *)
(***************************************************************************)
CurveValues ==
  [tokenCount : {R(1), R(16)}, epRanks : {R(1), R(2), R(4), R(256)},
   latencyUs : {Q(1, 4), R(25)}, bandwidthGBps : {Q(1, 2), R(1)},
   computeUsPerToken : {Q(45, 100)}, skew : {Q(1, 10)}]

CurveInit ==
  /\ params \in CurveValues
  /\ timings = Null
  /\ optimal = "none"
  /\ crossover = Null
  /\ timeline = Null
  /\ pc = "timings"
  /\ controls = [radio |-> "auto", animate |-> FALSE, deepepAnimate |-> FALSE]
  /\ effective = NoMode
  /\ loop = Idle
  /\ playhead = Null
  /\ handler = "renderAll"

CurveNext == ComputeTimings \/ PickOptimal \/ DrawCurve \/ DrawTimeline

CurveSpec == CurveInit /\ [][CurveNext]_vars

(***************************************************************************)
\* initialize has applied the default parameters to the controls (the animate
\* checkbox is checked) and applyToControls calls onStateChange (line 472)
LoopInit ==
  /\ params \in PresetValues
  /\ timings = Null
  /\ optimal = "none"
  /\ crossover = Null
  /\ timeline = Null
  /\ pc = "timings"
  /\ controls \in {c \in ControlStates : c.radio = "auto" /\ c.animate}
  /\ effective = NoMode
  /\ loop = Idle
  /\ playhead = Null
  /\ handler = "onStateChange"

LoopNext ==
  \/ ComputeTimings \/ PickOptimal \/ DrawCurve \/ StartOrStop \/ CatchError
  \/ DrawTimeline \/ AnimationTickStop
  \/ ApplyPreset \/ ToggleAnimation \/ BeginRenderAll

LoopSpec == LoopInit /\ [][LoopNext]_vars

(***************************************************************************)
(* ModeSpec: the DeepEP mode radios and the sliders, animation switched off *)
(***************************************************************************)
ModeInit ==
  /\ params \in ControlValues
  /\ timings = Null
  /\ optimal = "none"
  /\ crossover = Null
  /\ timeline = Null
  /\ pc = "timings"
  /\ controls \in {c \in ControlStates : ~c.animate /\ ~c.deepepAnimate}
  /\ effective = NoMode
  /\ loop = Idle
  /\ playhead = Null
  /\ handler = "onStateChange"

ModeNext ==
  \/ ComputeTimings \/ PickOptimal \/ DrawCurve \/ StartOrStop \/ DrawTimeline
  \/ ChangeControls \/ SelectMode

ModeSpec == ModeInit /\ [][ModeNext]_vars

(***************************************************************************)
(* Properties                                                              *)
(***************************************************************************)
\* the domain of WorkloadParameters
ValidParams(p) ==
  /\ fGe(p.tokenCount, R(0)) /\ fGe(p.epRanks, R(1))
  /\ fGt(p.bandwidthGBps, R(0)) /\ fGe(p.latencyUs, R(0))
  /\ fGe(p.computeUsPerToken, R(0))
  /\ fGe(p.skew, R(0)) /\ fLe(p.skew, R(1))

Evaluated == timings # Null
Picked == optimal # "none"
CurveDrawn == pc \in {"timeline", "done"}
Drawn == timeline # Null

TimingFields(tm) ==
  {tm.dispatchMs, tm.computeMs, tm.combineMs, tm.sequentialTotalMs, tm.dboOverlappedMs}

NonNegFinite(x) == isFinite(x) /\ fGe(x, R(0))

ValidDurations(tm) ==
  NonNegFinite(tm.dispatchMs) /\ NonNegFinite(tm.computeMs) /\ NonNegFinite(tm.combineMs)

End(blk) == fAdd(blk.start, blk.duration)

\* C1: for every valid parameter set the timings returned by calculateMoETimings
\* satisfy dboOverlappedMs <= sequentialTotalMs.
C1_DboAtMostSequential ==
  (Evaluated /\ ValidParams(params)) =>
    fLe(timings.dboOverlappedMs, timings.sequentialTotalMs)

C1_Witness ==
  /\ Evaluated /\ ValidParams(params)
  /\ fGt(timings.dispatchMs, R(0)) /\ fGt(timings.computeMs, R(0))
  /\ fLt(timings.dboOverlappedMs, timings.sequentialTotalMs)

\* C2: for every valid parameter set the Timings record has combineMs equal to
\* dispatchMs.
C2_CombineEqualsDispatch ==
  (Evaluated /\ ValidParams(params)) => fEq(timings.combineMs, timings.dispatchMs)

C2_Witness ==
  /\ Evaluated /\ ValidParams(params)
  /\ fGt(params.tokenCount, R(0)) /\ fGt(params.latencyUs, R(0))
  /\ fGt(timings.combineMs, R(0))

\* C3: for the d, c, b produced by the cost model on valid parameters,
\* sequentialTotalMs = d + c + b and dboOverlappedMs = max(d + b, c): it is one of
\* d + b and c and not below either.
C3_AggregateTotals ==
  (Evaluated /\ ValidParams(params)) =>
    LET d == timings.dispatchMs
        c == timings.computeMs
        b == timings.combineMs
        comm == fAdd(d, b)
    IN /\ fEq(fSub(timings.sequentialTotalMs, c), comm)
       /\ fGe(timings.dboOverlappedMs, comm)
       /\ fGe(timings.dboOverlappedMs, c)
       /\ (fEq(timings.dboOverlappedMs, comm) \/ fEq(timings.dboOverlappedMs, c))

\* a compute-bound evaluation: the overlapped total is the compute time
C3_Witness ==
  /\ Evaluated /\ ValidParams(params)
  /\ fGt(timings.dispatchMs, R(0))
  /\ fGt(timings.computeMs, fAdd(timings.dispatchMs, timings.combineMs))
  /\ fEq(timings.dboOverlappedMs, timings.computeMs)

\* C4: under the overlapped (DBO) policy, for all non-negative durations,
\* dispatchB.start equals dispatchA.end exactly and combineB.start >= combineA.end.
C4_FabricSerialization ==
  (Drawn /\ timeline.options.enableDBO /\ ValidDurations(timings)) =>
    LET A == timeline.schedule.batchA
        B == timeline.schedule.batchB
    IN /\ A[1].phase = "dispatch" /\ B[1].phase = "dispatch"
       /\ A[3].phase = "combine" /\ B[3].phase = "combine"
       /\ fEq(B[1].start, End(A[1]))
       /\ fGe(B[3].start, End(A[3]))

\* the fabric-bound case: batch B's compute is done before combineA leaves the fabric
C4_Witness ==
  /\ Drawn /\ timeline.options.enableDBO /\ ValidDurations(timings)
  /\ fGt(timings.dispatchMs, R(0)) /\ fGt(timings.computeMs, R(0))
  /\ fGt(timings.combineMs, timings.computeMs)
  /\ fGt(timeline.schedule.batchB[3].start, End(timeline.schedule.batchB[2]))

\* C5: under the sequential policy the schedule holds three blocks for batch A and
\* none for batch B, chained dispatchA.start = 0, computeA.start = dispatchA.end,
\* combineA.start = computeA.end; combineA.end and the total duration both equal
\* d + c + b of the durations the schedule was built from (the Timings' own with
\* split off).
C5_SequentialChain ==
  (Drawn /\ ~timeline.options.enableDBO /\ ValidDurations(timings)) =>
    LET A == timeline.schedule.batchA
        sum == fAdd(fAdd(A[1].duration, A[2].duration), A[3].duration)
    IN /\ Len(A) = 3 /\ timeline.schedule.batchB = <<>>
       /\ A[1].phase = "dispatch" /\ A[2].phase = "compute" /\ A[3].phase = "combine"
       /\ fEq(A[1].start, R(0))
       /\ fEq(A[2].start, End(A[1]))
       /\ fEq(A[3].start, End(A[2]))
       /\ fEq(End(A[3]), sum)
       /\ fEq(timeline.totalMs, sum)
       /\ (~timeline.options.enableSplit =>
             fEq(sum, fAdd(fAdd(timings.dispatchMs, timings.computeMs), timings.combineMs)))

C5_Witness ==
  /\ Drawn /\ ~timeline.options.enableDBO /\ ~timeline.options.enableSplit
  /\ ValidDurations(timings)
  /\ fGt(timings.dispatchMs, R(0)) /\ fGt(timings.computeMs, R(0))
  /\ fGt(timings.combineMs, R(0)) /\ timings.combineMs # timings.dispatchMs
  /\ fEq(timeline.totalMs, timings.sequentialTotalMs)

\* C6: pickOptimalMode returns the profile with the smaller round-trip
\* communication time for the same payload, and 'll' when the two times are equal.
C6_PicksSmallerTiesToLL ==
  Picked =>
    LET llTime == calculateCommTimeMs(params.tokenCount, params.epRanks, "ll",
                                      params.latencyUs, params.bandwidthGBps)
        htTime == calculateCommTimeMs(params.tokenCount, params.epRanks, "ht",
                                      params.latencyUs, params.bandwidthGBps)
    IN /\ optimal \in {"ll", "ht"}
       /\ (fLt(llTime, htTime) => optimal = "ll")
       /\ (fLt(htTime, llTime) => optimal = "ht")
       /\ (fEq(llTime, htTime) => optimal = "ll")

\* a tie between the two profiles on a valid parameter set
C6_Witness ==
  /\ optimal = "ll" /\ ValidParams(params)
  /\ fEq(calculateCommTimeMs(params.tokenCount, params.epRanks, "ll",
                             params.latencyUs, params.bandwidthGBps),
         calculateCommTimeMs(params.tokenCount, params.epRanks, "ht",
                             params.latencyUs, params.bandwidthGBps))

\* C7: for bandwidthGBps <= 0 or P <= 0 calculateMoETimings never returns a Timings
\* record containing an infinite or NaN value (such inputs are rejected).
C7_InvalidInputNeverNonFinite ==
  (Evaluated /\ (fLe(params.bandwidthGBps, R(0)) \/ fLe(params.epRanks, R(0)))) =>
    \A x \in TimingFields(timings) : isFinite(x)

\* C8 as stated: with tokenCount = 0 and otherwise valid parameters all five
\* timings are 0.
C8_ZeroTokensAllZero ==
  (Evaluated /\ ValidParams(params) /\ fEq(params.tokenCount, R(0))) =>
    \A x \in TimingFields(timings) : fEq(x, R(0))

\* C8 amended: with tokenCount = 0 and otherwise valid parameters computeMs is 0,
\* dispatchMs and combineMs are the latency latencyUs/1000, and both totals are
\* twice the latency.
C8_ZeroTokensLatencyOnly ==
  (Evaluated /\ ValidParams(params) /\ fEq(params.tokenCount, R(0))) =>
    LET latencyMs == fDiv(params.latencyUs, R(1000))
    IN /\ fEq(timings.computeMs, R(0))
       /\ fEq(timings.dispatchMs, latencyMs)
       /\ fEq(timings.combineMs, latencyMs)
       /\ fEq(timings.sequentialTotalMs, fMul(R(2), latencyMs))
       /\ fEq(timings.dboOverlappedMs, fMul(R(2), latencyMs))

C8_Witness ==
  /\ Evaluated /\ ValidParams(params) /\ fEq(params.tokenCount, R(0))
  /\ fGt(params.latencyUs, R(0)) /\ fGt(params.computeUsPerToken, R(0))
  /\ fGt(timings.dispatchMs, R(0))

\* C9: schedule construction rejects negative and non-finite durations: no block
\* with a negative or non-finite start or duration is ever produced.
C9_NoInvalidBlocks ==
  Drawn =>
    \A blk \in {timeline.schedule.batchA[i] : i \in DOMAIN timeline.schedule.batchA}
           \cup {timeline.schedule.batchB[i] : i \in DOMAIN timeline.schedule.batchB} :
      NonNegFinite(blk.start) /\ NonNegFinite(blk.duration)

\* HT is dominated everywhere, or the two profiles coincide
NoCrossing(p) ==
  LET ll == getParameters("ll", p.latencyUs, p.bandwidthGBps)
      ht == getParameters("ht", p.latencyUs, p.bandwidthGBps)
  IN \/ fGe(ht.latencyMs, ll.latencyMs) /\ fLe(ht.bandwidthGBps, ll.bandwidthGBps)
     \/ fEq(ht.latencyMs, ll.latencyMs) /\ fEq(ht.bandwidthGBps, ll.bandwidthGBps)

\* C10: whenever the LL and HT cost curves do not cross (HT dominated everywhere,
\* or identical profiles) the crossover search reports no crossover.
C10_NoCrossoverReported ==
  (CurveDrawn /\ NoCrossing(params)) => crossover = Null

C12_ComputeNonDecreasingInSkew ==
  (Evaluated /\ ValidParams(params)) =>
    \A s \in SkewValues :
      fGe(s, params.skew) =>
        fGe(calculateComputeTimeMs(params.tokenCount, params.epRanks,
                                   params.computeUsPerToken, s),
            timings.computeMs)

\* skew 0 against skew 1 with work to do: the compute time strictly grows
C12_Witness ==
  /\ Evaluated /\ ValidParams(params)
  /\ fEq(params.skew, R(0)) /\ fGt(timings.computeMs, R(0))
  /\ fGt(calculateComputeTimeMs(params.tokenCount, params.epRanks,
                                params.computeUsPerToken, R(1)),
         timings.computeMs)

\* (dispatchMs + combineMs) / sequentialTotalMs
commShare(tm) == fDiv(fAdd(tm.dispatchMs, tm.combineMs), tm.sequentialTotalMs)

\* C13: for tokenCount = 1,048,576 the communication share is at most the share
\* at tokenCount = 256, all other valid parameters equal, plus 0.01.
C13_ShareAtMostSmallPlus001 ==
  (Evaluated /\ ValidParams(params) /\ fEq(params.tokenCount, R(1048576))) =>
    LET small == calculateMoETimings(R(256), params.epRanks, params.latencyUs,
                                     params.bandwidthGBps, params.computeUsPerToken,
                                     params.skew)
    IN fLe(commShare(timings), fAdd(commShare(small), Q(1, 100)))

\* C14: for every valid parameter set with tokenCount >= 1, latency > 0,
\* bandwidth > 0, P >= 1 and compute cost per token > 0 (among them tokenCount =
\* 1024, P = 16, 25 us, 25 GB/s, 0.45 us/token, skew 0.10) all five timings are
\* finite and strictly positive.
C14_FinitePositive ==
  (/\ Evaluated /\ ValidParams(params)
   /\ fGe(params.tokenCount, R(1)) /\ fGt(params.latencyUs, R(0))
   /\ fGt(params.bandwidthGBps, R(0)) /\ fGe(params.epRanks, R(1))
   /\ fGt(params.computeUsPerToken, R(0))) =>
    \A x \in TimingFields(timings) : isFinite(x) /\ fGt(x, R(0))

\* the scenario of the first self test
C14_Witness ==
  /\ Evaluated
  /\ params = [tokenCount |-> R(1024), epRanks |-> R(16), latencyUs |-> R(25),
               bandwidthGBps |-> R(25), computeUsPerToken |-> Q(45, 100),
               skew |-> Q(10, 100)]
  /\ \A x \in TimingFields(timings) : isFinite(x) /\ fGt(x, R(0))
  /\ fLt(timings.dboOverlappedMs, timings.sequentialTotalMs)

\* C15: with expert parallelism P = 1 the evaluation goes through (the compute
\* time is a finite number), the coordination penalty is exactly 1 and the
\* straggler factor is 1 + 2.2 * skew.
C15_SingleRankNoCoordination ==
  (Evaluated /\ fEq(params.epRanks, R(1))) =>
    /\ fEq(coordinationPenalty(params.epRanks), R(1))
    /\ fEq(calculateStragglerFactor(params.epRanks, params.skew),
           fAdd(R(1), fMul(Q(22, 10), params.skew)))
    /\ isFinite(timings.computeMs)

C15_Witness ==
  /\ Evaluated /\ fEq(params.epRanks, R(1))
  /\ fGt(params.skew, R(0)) /\ fGt(timings.computeMs, R(0))
  /\ fGt(calculateStragglerFactor(params.epRanks, params.skew), R(1))

\* the schedule and total drawn from the same Timings with split switched off
Unsplit == draw(timings, [timeline.options EXCEPT !.enableSplit = FALSE])

\* blk is the block whole with start and duration halved
HalfOf(blk, whole) ==
  /\ blk.phase = whole.phase
  /\ blk.start = fDiv(whole.start, R(2))
  /\ blk.duration = fDiv(whole.duration, R(2))

\* C16: split only halves: for every d, c, b and either policy the schedule built
\* with split has the blocks of the schedule built without it, batch by batch in
\* the same order and with the same phases, each with exactly half the start and
\* half the duration, and the total duration is half the unsplit total.
C16_SplitOnlyHalves ==
  (Drawn /\ timeline.options.enableSplit) =>
    LET S == timeline.schedule
        U == Unsplit.schedule
    IN /\ Len(S.batchA) = Len(U.batchA) /\ Len(S.batchB) = Len(U.batchB)
       /\ \A i \in DOMAIN S.batchA : HalfOf(S.batchA[i], U.batchA[i])
       /\ \A i \in DOMAIN S.batchB : HalfOf(S.batchB[i], U.batchB[i])
       /\ timeline.totalMs = fDiv(Unsplit.totalMs, R(2))

\* a compute-bound overlapped schedule drawn with split
C16_Witness ==
  /\ Drawn /\ timeline.options.enableSplit /\ timeline.options.enableDBO
  /\ ValidDurations(timings)
  /\ fGt(timings.dispatchMs, R(0)) /\ fGt(timings.combineMs, R(0))
  /\ fGt(timings.computeMs, timings.dispatchMs)
  /\ fGt(timeline.totalMs, R(0)) /\ fLt(timeline.totalMs, Unsplit.totalMs)

\* C17: building a schedule, with split on or off and under either policy, leaves
\* the Timings record as it was, and the totals in it are the closed forms of its
\* own (un-split) durations: d + c + b and max(d + b, c).
C17_ScheduleLeavesTimings ==
  [][(timeline' # timeline) =>
       /\ timings' = timings
       /\ timings'.sequentialTotalMs =
            fAdd(fAdd(timings'.dispatchMs, timings'.computeMs), timings'.combineMs)
       /\ timings'.dboOverlappedMs =
            fMax(fAdd(timings'.dispatchMs, timings'.combineMs), timings'.computeMs)]_vars

\* a schedule drawn with split: its first block has half the dispatch time while
\* the Timings still hold the whole one
C17_Witness ==
  /\ Drawn /\ timeline.options.enableSplit /\ ValidParams(params)
  /\ timings = computeCurrentTimings
  /\ fGt(timings.dispatchMs, R(0)) /\ fGt(timings.computeMs, R(0))
  /\ timeline.schedule.batchA[1].duration = fDiv(timings.dispatchMs, R(2))

\* d, c and b are non-negative (not NaN)
NonNegDurations(tm) ==
  fGe(tm.dispatchMs, R(0)) /\ fGe(tm.computeMs, R(0)) /\ fGe(tm.combineMs, R(0))

\* C18: under the overlapped policy, for all non-negative d, c, b:
\* dispatchA.start = 0, computeA.start = dispatchA.end,
\* computeB.start = max(dispatchB.end, computeA.end),
\* combineA.start = max(computeA.end, dispatchB.end),
\* combineB.start = max(computeB.end, combineA.end), and the total duration is
\* max(combineA.end, combineB.end).
C18_OverlappedRecurrences ==
  (Drawn /\ timeline.options.enableDBO /\ NonNegDurations(timings)) =>
    LET dispatchA == timeline.schedule.batchA[1]
        computeA == timeline.schedule.batchA[2]
        combineA == timeline.schedule.batchA[3]
        dispatchB == timeline.schedule.batchB[1]
        computeB == timeline.schedule.batchB[2]
        combineB == timeline.schedule.batchB[3]
    IN /\ dispatchA.phase = "dispatch" /\ computeA.phase = "compute"
       /\ combineA.phase = "combine" /\ dispatchB.phase = "dispatch"
       /\ computeB.phase = "compute" /\ combineB.phase = "combine"
       /\ fEq(dispatchA.start, R(0))
       /\ fEq(computeA.start, End(dispatchA))
       /\ fEq(computeB.start, fMax(End(dispatchB), End(computeA)))
       /\ fEq(combineA.start, fMax(End(computeA), End(dispatchB)))
       /\ fEq(combineB.start, fMax(End(computeB), End(combineA)))
       /\ fEq(timeline.totalMs, fMax(End(combineA), End(combineB)))

\* the compute-bound case: batch B's tokens have arrived and its compute waits
\* for the engine
C18_Witness ==
  /\ Drawn /\ timeline.options.enableDBO /\ ValidDurations(timings)
  /\ fGt(timings.dispatchMs, R(0)) /\ fGt(timings.combineMs, R(0))
  /\ fGt(timings.computeMs, timings.dispatchMs)
  /\ fGt(timeline.schedule.batchB[2].start, End(timeline.schedule.batchB[1]))
  /\ fEq(timeline.schedule.batchB[2].start, End(timeline.schedule.batchA[2]))

\* one of the two blocks has ended when the other starts
Disjoint(x, y) == fLe(End(x), y.start) \/ fLe(End(y), x.start)

\* C19: in every overlapped schedule, for all non-negative d, c, b, no two of the
\* four fabric blocks (dispatchA, dispatchB, combineA, combineB) overlap in time,
\* and the two compute blocks do not overlap in time.
C19_SerialResources ==
  (Drawn /\ timeline.options.enableDBO /\ NonNegDurations(timings)) =>
    LET A == timeline.schedule.batchA
        B == timeline.schedule.batchB
        fabric == <<A[1], B[1], A[3], B[3]>>
    IN /\ A[1].phase = "dispatch" /\ B[1].phase = "dispatch"
       /\ A[3].phase = "combine" /\ B[3].phase = "combine"
       /\ A[2].phase = "compute" /\ B[2].phase = "compute"
       /\ \A i \in 1..4 : \A j \in 1..4 : i < j => Disjoint(fabric[i], fabric[j])
       /\ Disjoint(A[2], B[2])

\* the fabric-bound case: batch A's compute is done while dispatchB still holds
\* the fabric, and combineA starts when dispatchB ends
C19_Witness ==
  /\ Drawn /\ timeline.options.enableDBO /\ ValidDurations(timings)
  /\ fGt(timings.computeMs, R(0)) /\ fGt(timings.combineMs, R(0))
  /\ fGt(timings.dispatchMs, timings.computeMs)
  /\ fGt(timeline.schedule.batchA[3].start, End(timeline.schedule.batchA[2]))
  /\ fEq(timeline.schedule.batchA[3].start, End(timeline.schedule.batchB[1]))

\* the blocks of one batch are dispatch, compute, combine, and none starts
\* earlier than the one before it ends
InPhaseOrder(batch) ==
  /\ Len(batch) = 3
  /\ batch[1].phase = "dispatch" /\ batch[2].phase = "compute"
  /\ batch[3].phase = "combine"
  /\ ~fLt(batch[2].start, End(batch[1])) /\ ~fLt(batch[3].start, End(batch[2]))

\* C20: in every schedule, under either policy, each batch passes through its
\* phases in order: its compute block starts no earlier than its dispatch block
\* ends, and its combine block starts no earlier than its compute block ends.
C20_PhasesInOrder ==
  Drawn =>
    /\ InPhaseOrder(timeline.schedule.batchA)
    /\ (timeline.options.enableDBO => InPhaseOrder(timeline.schedule.batchB))
    /\ (~timeline.options.enableDBO => timeline.schedule.batchB = <<>>)

\* batch B's compute finds the engine free and waits for its own dispatch
C20_Witness ==
  /\ Drawn /\ timeline.options.enableDBO /\ ValidDurations(timings)
  /\ fGt(timings.computeMs, R(0)) /\ fGt(timings.combineMs, R(0))
  /\ fGt(timings.dispatchMs, timings.computeMs)
  /\ fGt(timeline.schedule.batchB[2].start, End(timeline.schedule.batchA[2]))
  /\ fEq(timeline.schedule.batchB[2].start, End(timeline.schedule.batchB[1]))

\* C21: for all non-negative d, c with b = d and split off, the total duration of
\* the overlapped two-batch schedule is not below the closed form dboOverlappedMs
\* = max(2d, c), and it is computed from the schedule, not taken from the totals
\* of the Timings record: with the two totals replaced the schedule total is the
\* same.
C21_ScheduleTotalAtLeastClosedForm ==
  (/\ Drawn /\ timeline.options.enableDBO /\ ~timeline.options.enableSplit
   /\ NonNegDurations(timings) /\ timings.combineMs = timings.dispatchMs) =>
    /\ fEq(timings.dboOverlappedMs,
           fMax(fMul(R(2), timings.dispatchMs), timings.computeMs))
    /\ fGe(timeline.totalMs, timings.dboOverlappedMs)
    /\ timeline.totalMs =
         draw([timings EXCEPT !.dboOverlappedMs = NaN, !.sequentialTotalMs = NaN],
              timeline.options).totalMs

\* fill and drain: the schedule of two batches takes longer than the closed form
C21_Witness ==
  /\ Drawn /\ timeline.options.enableDBO /\ ~timeline.options.enableSplit
  /\ ValidDurations(timings) /\ timings.combineMs = timings.dispatchMs
  /\ fGt(timings.dispatchMs, R(0)) /\ fGt(timings.computeMs, fMul(R(2), timings.dispatchMs))
  /\ fGt(timeline.totalMs, timings.dboOverlappedMs)

\* C22: for each profile the round-trip communication time is 2 x (profile
\* latency + payloadPerRank / profile bandwidth), LL with 0.55 x base latency and
\* 0.70 x base bandwidth, HT with 1.15 x and 1.35 x, and payloadPerRank is the
\* tokenCount * topK * hiddenDimension * bytesPerElement / P of the dispatch-time
\* formula: the round trip is twice the dispatch time at the profile's latency
\* and bandwidth.
C22_RoundTripPerProfile ==
  Picked =>
    \A mode \in {"ll", "ht"} :
      LET latencyFactor == IF mode = "ll" THEN Q(55, 100) ELSE Q(115, 100)
          bandwidthFactor == IF mode = "ll" THEN Q(70, 100) ELSE Q(135, 100)
          payloadPerRank ==
            fDiv(fMul(fMul(fMul(params.tokenCount, R(TOP_K_EXPERTS)),
                           R(HIDDEN_DIMENSION)), R(BYTES_PER_ELEMENT)),
                 params.epRanks)
          profileLatencyMs == fMul(latencyFactor, fDiv(params.latencyUs, R(1000)))
          profileBandwidth == fMul(bandwidthFactor, params.bandwidthGBps)
          roundTrip == calculateCommTimeMs(params.tokenCount, params.epRanks, mode,
                                           params.latencyUs, params.bandwidthGBps)
      IN /\ roundTrip =
              fMul(R(2), fAdd(profileLatencyMs,
                              fMul(fDiv(payloadPerRank,
                                        fMul(profileBandwidth, R(1000000000))),
                                   R(1000))))
         /\ roundTrip =
              fMul(R(2), calculateDispatchTimeMs(params.tokenCount, params.epRanks,
                                                 fMul(latencyFactor, params.latencyUs),
                                                 profileBandwidth))

\* valid parameters with a latency and a payload: both terms of both profiles count
C22_Witness ==
  /\ Picked /\ ValidParams(params)
  /\ fGt(params.latencyUs, R(0)) /\ fGt(params.tokenCount, R(1))
  /\ fLt(calculateCommTimeMs(params.tokenCount, params.epRanks, "ht",
                             params.latencyUs, params.bandwidthGBps),
         calculateCommTimeMs(params.tokenCount, params.epRanks, "ll",
                             params.latencyUs, params.bandwidthGBps))

\* the per-rank payload divided by the bandwidth in bytes per second, in ms,
\* after the latency in ms
DispatchClosedForm(tokenCount, epRanks, latencyUs, bandwidthGBps) ==
  LET payloadPerRank ==
        fDiv(fMul(fMul(fMul(tokenCount, R(TOP_K_EXPERTS)), R(HIDDEN_DIMENSION)),
                  R(BYTES_PER_ELEMENT)),
             epRanks)
  IN fAdd(fDiv(latencyUs, R(1000)),
          fMul(fDiv(payloadPerRank, fMul(bandwidthGBps, R(1000000000))), R(1000)))

\* C23: dispatchMs equals latencyUs / 1000 plus the per-rank payload (tokenCount *
\* topK * hiddenDimension * bytesPerElement / P) divided by bandwidthGBps * 1e9 and
\* multiplied by 1000; over valid parameters it is non-decreasing in tokenCount
\* and latency and non-increasing in P and bandwidth.
C23_DispatchFormulaMonotone ==
  (Evaluated /\ ValidParams(params)) =>
    /\ timings.dispatchMs =
         DispatchClosedForm(params.tokenCount, params.epRanks, params.latencyUs,
                            params.bandwidthGBps)
    /\ \A t \in TokenValues :
         fGe(t, params.tokenCount) =>
           fGe(calculateDispatchTimeMs(t, params.epRanks, params.latencyUs,
                                       params.bandwidthGBps),
               timings.dispatchMs)
    /\ \A l \in LatencyValues :
         fGe(l, params.latencyUs) =>
           fGe(calculateDispatchTimeMs(params.tokenCount, params.epRanks, l,
                                       params.bandwidthGBps),
               timings.dispatchMs)
    /\ \A p \in EpValues :
         (fGe(p, R(1)) /\ fLe(p, params.epRanks)) =>
           fGe(calculateDispatchTimeMs(params.tokenCount, p, params.latencyUs,
                                       params.bandwidthGBps),
               timings.dispatchMs)
    /\ \A bw \in BandwidthValues :
         (fGt(bw, R(0)) /\ fLe(bw, params.bandwidthGBps)) =>
           fGe(calculateDispatchTimeMs(params.tokenCount, params.epRanks,
                                       params.latencyUs, bw),
               timings.dispatchMs)

\* several ranks and a payload: more tokens, a longer latency, fewer ranks and
\* less bandwidth each make the dispatch strictly longer
C23_Witness ==
  /\ Evaluated /\ ValidParams(params)
  /\ fGt(params.epRanks, R(1)) /\ fGt(params.tokenCount, R(0))
  /\ \E t \in TokenValues :
       /\ fGt(t, params.tokenCount)
       /\ fGt(calculateDispatchTimeMs(t, params.epRanks, params.latencyUs,
                                      params.bandwidthGBps),
              timings.dispatchMs)
  /\ \E l \in LatencyValues :
       /\ fGt(l, params.latencyUs)
       /\ fGt(calculateDispatchTimeMs(params.tokenCount, params.epRanks, l,
                                      params.bandwidthGBps),
              timings.dispatchMs)
  /\ \E p \in EpValues :
       /\ fGe(p, R(1)) /\ fLt(p, params.epRanks)
       /\ fGt(calculateDispatchTimeMs(params.tokenCount, p, params.latencyUs,
                                      params.bandwidthGBps),
              timings.dispatchMs)
  /\ \E bw \in BandwidthValues :
       /\ fGt(bw, R(0)) /\ fLt(bw, params.bandwidthGBps)
       /\ fGt(calculateDispatchTimeMs(params.tokenCount, params.epRanks,
                                      params.latencyUs, bw),
              timings.dispatchMs)

\* the closed-form LL/HT crossover of the two profiles, converted to tokens:
\* V* = (L_LL - L_HT) / (1/BW_HT - 1/BW_LL) bytes per rank, times P / bytes per token
ExactCrossoverTokens(p) ==
  LET ll == getParameters("ll", p.latencyUs, p.bandwidthGBps)
      ht == getParameters("ht", p.latencyUs, p.bandwidthGBps)
      perByteLL == fDiv(R(1), fMul(ll.bandwidthGBps, R(1000000)))
      perByteHT == fDiv(R(1), fMul(ht.bandwidthGBps, R(1000000)))
      payload == fDiv(fSub(ll.latencyMs, ht.latencyMs), fSub(perByteHT, perByteLL))
  IN fDiv(fMul(payload, p.epRanks), calculateBytesPerToken)

\* the exact crossover lies inside the range of the sampled token counts
CrossoverInRange(p) ==
  LET points == _generateCurveData(p)
  IN /\ fLt(points[1].tokens, ExactCrossoverTokens(p))
     /\ fLe(ExactCrossoverTokens(p), points[Len(points)].tokens)

\* C24: whenever the exact crossover V* = (L_LL - L_HT) / (1/BW_HT - 1/BW_LL),
\* converted to tokens, lies inside the sampled token range, the sampled scan
\* reports a crossover between the two adjacent samples that bracket the exact
\* one, taken from the first adjacent pair with LL < HT at the first sample and
\* LL >= HT at the second.
C24_SampledBracketsExact ==
  (CurveDrawn /\ ValidParams(params) /\ CrossoverInRange(params)) =>
    LET points == _generateCurveData(params)
    IN /\ crossover # Null
       /\ \E i \in 1..(Len(points) - 1) :
            /\ crossover.lo = points[i].tokens /\ crossover.hi = points[i + 1].tokens
            /\ fLt(points[i].llTime, points[i].htTime)
            /\ fGe(points[i + 1].llTime, points[i + 1].htTime)
            /\ \A j \in 1..(i - 1) :
                 ~(/\ fLt(points[j].llTime, points[j].htTime)
                   /\ fGe(points[j + 1].llTime, points[j + 1].htTime))
       /\ fLe(crossover.lo, ExactCrossoverTokens(params))
       /\ fLe(ExactCrossoverTokens(params), crossover.hi)
       /\ fGe(crossover.t, R(0)) /\ fLe(crossover.t, R(1))

\* the two methods agree: a crossover strictly between two samples is bracketed
C24_Agreement ==
  /\ CurveDrawn /\ ValidParams(params) /\ CrossoverInRange(params)
  /\ crossover # Null
  /\ fLt(crossover.lo, ExactCrossoverTokens(params))
  /\ fLt(ExactCrossoverTokens(params), crossover.hi)

\* C25: the profile used for a communication-time computation is always 'll' or
\* 'ht', never 'auto'; once a handler has run, all render sites (labels, curve
\* point, topology, timeline) have resolved the same effective mode for the
\* control state: the forced one when LL or HT is checked, whatever
\* pickOptimalMode returns, and pickOptimalMode of the current parameters in
\* auto mode.
C25_EffectiveModeResolved ==
  /\ \A site \in DOMAIN effective : effective[site] \in {"none", "ll", "ht"}
  /\ pc = "done" =>
       \A site \in DOMAIN effective :
         /\ effective[site] \in {"ll", "ht"}
         /\ controls.radio # "auto" => effective[site] = controls.radio
         /\ controls.radio = "auto" =>
              effective[site] = pickOptimalMode(params.tokenCount, params.epRanks,
                                                params.latencyUs, params.bandwidthGBps)

\* LL forced while pickOptimalMode returns 'ht' for the parameters
C25_Witness ==
  /\ pc = "done" /\ controls.radio = "ll"
  /\ ValidParams(params)
  /\ pickOptimalMode(params.tokenCount, params.epRanks,
                     params.latencyUs, params.bandwidthGBps) = "ht"
  /\ \A site \in DOMAIN effective : effective[site] = "ll"

\* C26: a frame callback (animationTick) that runs while the main animate
\* checkbox and the DeepEP animate checkbox are both unchecked stops the
\* animation loop: when the callback has completed, no animation frame is
\* pending and AnimationController.requestId is null.
C26_FrameWithBothOffStopsLoop ==
  [][AnimationTickStop => (loop'.requestId = 0 /\ loop'.pending = {})]_vars

\* C27: after any sequence of control changes, preset clicks, debounced resize
\* callbacks, start and stop calls and frame callbacks, at most one animation
\* frame request is pending, and it is the one AnimationController.requestId
\* holds: start called while a loop is running creates no second loop.
C27_AtMostOnePendingFrame ==
  /\ Cardinality(loop.pending) <= 1
  /\ loop.pending \subseteq {loop.requestId}

\* the loop has ticked and is running with the animate checkbox checked, and a
\* renderAll (debounced resize, theme change) has redrawn the timeline at 0 since
\* the last frame: one request is pending
C27_Witness ==
  /\ pc = "done" /\ controls.animate
  /\ fGt(loop.elapsedSeconds, R(0))
  /\ playhead = R(0) /\ timeline # Null
  /\ loop.requestId # 0 /\ loop.pending = {loop.requestId}

\* C28: the cached timings are never stale: after any sequence of control,
\* preset, theme-change and resize events, every timeline draw (from
\* animationTick, onStateChange or renderAll) uses timings equal to
\* calculateMoETimings applied to the parameter values the controls hold at that
\* moment.
C28_DrawUsesCurrentTimings ==
  [][DrawTimeline =>
       /\ timingsInUse = computeCurrentTimings
       /\ timeline' = draw(computeCurrentTimings, timeline'.options)]_vars

\* a frame of the running animation has drawn the timeline, playhead past 0, from
\* the cache, and the cache holds the Timings of the parameters in the controls
C28_Witness ==
  /\ pc = "done" /\ Drawn
  /\ playhead # Null /\ fGt(playhead, R(0))
  /\ timings # Null /\ timings = computeCurrentTimings
  /\ timeline = draw(timings, timeline.options)

\* C29: the playhead time that animationTick passes to the timeline lies within
\* the schedule being drawn: 0 <= currentTimeMs <= total duration of the schedule
\* built for the same timings, policy and split flag, at every frame and for both
\* the sequential and the overlapped policy.
C29_PlayheadWithinSchedule ==
  (Drawn /\ playhead # Null) =>
    /\ fGe(playhead, R(0))
    /\ fLe(playhead, timeline.totalMs)

\* C30: for all non-negative d, c with b = d and the same split setting, the total
\* duration of the overlapped two-batch schedule is at most twice the total
\* duration of the sequential schedule, 2 * (d + c + b): overlapping two batches
\* never takes longer than running them one after the other.
C30_OverlapAtMostTwiceSequential ==
  (/\ Drawn /\ timeline.options.enableDBO
   /\ NonNegDurations(timings) /\ timings.combineMs = timings.dispatchMs) =>
    LET sequential == draw(timings, [timeline.options EXCEPT !.enableDBO = FALSE])
        d == IF timeline.options.enableSplit
             THEN fDiv(timings.dispatchMs, R(2)) ELSE timings.dispatchMs
        c == IF timeline.options.enableSplit
             THEN fDiv(timings.computeMs, R(2)) ELSE timings.computeMs
    IN /\ sequential.totalMs = fAdd(fAdd(d, c), d)
       /\ fLe(timeline.totalMs, fMul(R(2), sequential.totalMs))

\* positive finite d and c: the overlapped schedule is strictly shorter than two
\* sequential runs
C30_Witness ==
  /\ Drawn /\ timeline.options.enableDBO
  /\ ValidDurations(timings) /\ timings.combineMs = timings.dispatchMs
  /\ fGt(timings.dispatchMs, R(0)) /\ fGt(timings.computeMs, R(0))
  /\ fLt(timeline.totalMs,
         fMul(R(2), draw(timings, [timeline.options EXCEPT !.enableDBO = FALSE]).totalMs))

====
